---- MODULE Spec2Model ----
(***************************************************************************)
(* A model of the Selas API client (src/src/index.ts): the SelasClient     *)
(* object, its remote procedure calls through supabase.rpc, the service    *)
(* catalog it keeps, job submission, and the Pusher subscriptions made by  *)
(* subscribeToJob.                                                         *)
(*                                                                         *)
(* JavaScript runs every async function without interruption up to its     *)
(* next await, so each operation is one action up to the await of          *)
(* supabase.rpc and one action for its continuation after the backend      *)
(* answered.  Operations in flight at the same time interleave only at     *)
(* these points.                                                           *)
(***************************************************************************)
EXTENDS Naturals, Sequences, FiniteSets

(***************************************************************************)
(* Bounds of the model.                                                    *)
(***************************************************************************)
\* backend calls issued in one run
MaxCalls == 3
\* operations awaiting their backend answer at the same time
MaxInFlight == 2
\* subscribeToJob calls in one run
MaxSubs == 2

(***************************************************************************)
(* JavaScript values, tagged by their type.                                *)
(***************************************************************************)
Null == [t |-> "null", v |-> ""]
Undefined == [t |-> "undefined", v |-> ""]
Str(s) == [t |-> "string", v |-> s]
Num(n) == [t |-> "number", v |-> n]
List(l) == [t |-> "array", v |-> l]
Obj(o) == [t |-> "object", v |-> o]

\* what `if (x)` and `x || y` take for true
Truthy(x) ==
    CASE x.t = "null" -> FALSE
      [] x.t = "undefined" -> FALSE
      [] x.t = "string" -> x.v # ""
      [] x.t = "number" -> x.v # 0
      [] OTHER -> TRUE

\* { ...a, ...b }: the keys of both, b's value where both have the key
Spread(a, b) ==
    [k \in (DOMAIN a) \cup (DOMAIN b) |-> IF k \in DOMAIN b THEN b[k] ELSE a[k]]

\* the object literal {}
EmptyObject == [k \in {} |-> Null]

(***************************************************************************)
(* The inputs the caller and the two external services draw from.          *)
(***************************************************************************)
\* the arguments createSelasClient may be called with: the credentials,
\* and the optional worker_filter left out or given
CreateSelasClientArgs ==
    { [credentials |-> [app_id |-> "app-A", key |-> "key-A",
                        app_user_id |-> "user-A", app_user_token |-> "token-A"],
       worker_filter |-> Undefined],
      [credentials |-> [app_id |-> "app-B", key |-> "key-B",
                        app_user_id |-> "user-B", app_user_token |-> "token-B"],
       worker_filter |-> Obj([branch |-> "dev"])] }

svc1 == [id |-> "svc-1", name |-> "sdxl"]
svc2 == [id |-> "svc-2", name |-> "sd15"]
\* a second service with the name of svc1
svc3 == [id |-> "svc-3", name |-> "sdxl"]

\* the lists app_user_get_services may answer with
CatalogAnswers ==
    { <<>>, <<svc1>>, <<svc1, svc2>>, <<svc3, svc1>>, <<svc2, svc2>> }

\* the service names a caller submits jobs under
ServiceNames == { "sdxl", "sd15", "SDXL" }

\* job configurations: the properties in order, seed optional
JobConfigs ==
    { << [k |-> "steps", v |-> "28", defined |-> TRUE],
         [k |-> "seed", v |-> "", defined |-> FALSE] >>,
      << [k |-> "steps", v |-> "50", defined |-> TRUE],
         [k |-> "seed", v |-> "7", defined |-> TRUE] >> }

\* the job identifiers app_owner_post_job_admin may answer with
JobIds == { "job-42" }

\* the error payloads the backend may answer with
BackendErrors == { Obj([message |-> "quota exceeded"]) }

\* the answers {data, error} of supabase.rpc to a call of procedure fn
BackendAnswers(fn) ==
    LET datas ==
            CASE fn = "app_user_get_services" ->
                    { List(l) : l \in CatalogAnswers }
              [] fn = "app_owner_post_job_admin" ->
                    { Str(j) : j \in JobIds }
              [] fn = "app_user_echo" -> { Str("hello") }
              [] fn = "app_user_get_credits" -> { Num(10) }
              [] OTHER -> { List(<<>>) }
    IN  { [data |-> d, error |-> Null] : d \in datas }
          \cup { [data |-> Null, error |-> e] : e \in BackendErrors }
          \cup { [data |-> Null, error |-> Null] }

\* the job identifiers and callbacks subscribeToJob is called with
SubscribeJobIds == { "42", "7" }
Callbacks == { "cb1", "cb2" }

\* the channels and events the relay publishes
RelayChannels == { "job-42", "job-7", "42" }
RelayEvents == { "result", "progress" }

(***************************************************************************)
(* The state.                                                              *)
(***************************************************************************)
VARIABLES
    app_id, key, app_user_id, app_user_token,  \* SelasClient's credentials
    worker_filter,                             \* SelasClient.worker_filter
    services,                                  \* SelasClient.services
    credentials,      \* the credentials createSelasClient was called with
    selas,            \* createSelasClient: "constructed", "fetching", "returned"
    pending,          \* the operations awaiting supabase.rpc, oldest first
    ncalls,           \* the number of calls of supabase.rpc so far
    last,             \* how the operation that completed last ended
    pusher,           \* the Pusher clients created so far, oldest first
    subscribed,       \* the arguments of the subscribeToJob calls so far
    published         \* the relay's last publication and whom it invoked

client == << app_id, key, app_user_id, app_user_token, worker_filter >>
vars == << app_id, key, app_user_id, app_user_token, worker_filter, services,
           credentials, selas, pending, ncalls, last, pusher, subscribed,
           published >>

\* no operation has completed yet
NoOperation ==
    [kind |-> "none", ctor |-> FALSE, outcome |-> "none", fn |-> "",
     params |-> EmptyObject, service_name |-> "", read |-> <<>>,
     answer |-> [data |-> Null, error |-> Null],
     result |-> [data |-> Null, error |-> Null], message |-> ""]

\* the relay has published nothing yet
NoPublication == [channel |-> "", event |-> "", invoked |-> <<>>]

(***************************************************************************)
(* SelasClient.constructor, as createSelasClient calls it.                 *)
(***************************************************************************)
DefaultWorkerFilter == Obj([branch |-> "prod"])

Constructor(c, wf) ==
    /\ app_id = c.app_id
    /\ key = c.key
    /\ app_user_id = c.app_user_id
    /\ app_user_token = c.app_user_token
    /\ worker_filter = IF Truthy(wf) THEN wf ELSE DefaultWorkerFilter
    /\ services = <<>>

Init ==
    /\ \E args \in CreateSelasClientArgs :
          /\ credentials = args.credentials
          /\ Constructor(args.credentials, args.worker_filter)
    /\ selas = "constructed"
    /\ pending = <<>>
    /\ ncalls = 0
    /\ last = NoOperation
    /\ pusher = <<>>
    /\ subscribed = <<>>
    /\ published = NoPublication

(***************************************************************************)
(* SelasClient.rpc up to its await: the parameters with the credentials    *)
(* spread over them, and the call of supabase.rpc.                         *)
(***************************************************************************)
\* rpc with the spread after the credentials: `{ p_app_id: ..., ...params }`
paramsOverToken(params) ==
    Spread([p_app_id |-> Str(app_id),
            p_key |-> Str(key),
            p_app_user_id |-> Str(app_user_id),
            p_app_user_token |-> Str(app_user_token)],
           params)

paramsWithToken(params) ==
    Spread(params,
           [p_app_id |-> Str(app_id),
            p_key |-> Str(key),
            p_app_user_id |-> Str(app_user_id),
            p_app_user_token |-> Str(app_user_token)])

\* operation `kind` calls rpc(fn, params) and awaits the answer
rpc(kind, ctor, fn, params, service_name, read) ==
    /\ ncalls < MaxCalls
    /\ Len(pending) < MaxInFlight
    /\ pending' = Append(pending,
                         [kind |-> kind, ctor |-> ctor, fn |-> fn,
                          params |-> paramsWithToken(params),
                          service_name |-> service_name, read |-> read])
    /\ ncalls' = ncalls + 1

\* pending without its i-th operation
Remove(s, i) == SubSeq(s, 1, i - 1) \o SubSeq(s, i + 1, Len(s))

\* the i-th pending operation completes, returning result
Return(i, answer, result) ==
    /\ pending' = Remove(pending, i)
    /\ last' = [kind |-> pending[i].kind, ctor |-> pending[i].ctor,
                outcome |-> "returned", fn |-> pending[i].fn,
                params |-> pending[i].params,
                service_name |-> pending[i].service_name,
                read |-> pending[i].read,
                answer |-> answer, result |-> result, message |-> ""]

(***************************************************************************)
(* An operation fails with `throw new Error(message)`: its promise rejects *)
(* and nothing is returned.                                                *)
(***************************************************************************)
\* the failure returned as a result pair instead of thrown
ReturnErrorPair(kind, service_name, read, message) ==
    last' = [kind |-> kind, ctor |-> FALSE, outcome |-> "returned", fn |-> "",
             params |-> EmptyObject, service_name |-> service_name,
             read |-> read,
             answer |-> [data |-> Null, error |-> Null],
             result |-> [data |-> Null, error |-> Str(message)], message |-> ""]

Throw(kind, service_name, read, message) ==
    last' = [kind |-> kind, ctor |-> FALSE, outcome |-> "thrown", fn |-> "",
             params |-> EmptyObject, service_name |-> service_name,
             read |-> read,
             answer |-> [data |-> Null, error |-> Null],
             result |-> [data |-> Null, error |-> Null], message |-> message]

(***************************************************************************)
(* createSelasClient and SelasClient.getServiceList.                       *)
(***************************************************************************)
\* getServiceList up to its await
getServiceListCall(ctor) ==
    rpc("getServiceList", ctor, "app_user_get_services", EmptyObject, "", <<>>)

\* getServiceList dropping the entries that repeat their predecessor
RECURSIVE Dedup(_)
Dedup(l) ==
    IF Len(l) < 2 THEN l
    ELSE IF l[1] = l[2] THEN Dedup(Tail(l))
    ELSE << Head(l) >> \o Dedup(Tail(l))

servicesAfterDedup(data) == IF Truthy(data) THEN Dedup(data.v) ELSE services

\* getServiceList adding the fetched entries to the list it has
servicesAfterMerged(data) ==
    IF Truthy(data) THEN services \o data.v ELSE services

\* getServiceList without its `if (data)`
servicesAfterAlways(data) == IF data.t = "array" THEN data.v ELSE <<>>

\* getServiceList's `if (data) { this.services = data; }`
servicesAfter(data) == IF Truthy(data) THEN data.v ELSE services

\* getServiceList after its await
getServiceListResume(i, answer) ==
    /\ services' = servicesAfter(answer.data)
    /\ Return(i, answer, [data |-> answer.data, error |-> answer.error])

\* createSelasClient up to `await selas.getServiceList()`
CreateSelasClient ==
    /\ selas = "constructed"
    /\ getServiceListCall(TRUE)
    /\ selas' = "fetching"
    /\ UNCHANGED << client, services, credentials, last, pusher, subscribed,
                    published >>

\* createSelasClient after the await: the client is returned to the caller
CreateSelasClientReturn(i, answer) ==
    /\ pending[i].kind = "getServiceList"
    /\ pending[i].ctor
    /\ getServiceListResume(i, answer)
    /\ selas' = "returned"
    /\ UNCHANGED << client, credentials, ncalls, pusher, subscribed, published >>

GetServiceList ==
    /\ selas = "returned"
    /\ getServiceListCall(FALSE)
    /\ UNCHANGED << client, services, credentials, selas, last, pusher,
                    subscribed, published >>

GetServiceListReturn(i, answer) ==
    /\ pending[i].kind = "getServiceList"
    /\ ~pending[i].ctor
    /\ getServiceListResume(i, answer)
    /\ UNCHANGED << client, credentials, selas, ncalls, pusher, subscribed,
                    published >>

(***************************************************************************)
(* echo, getAppUserCredits, getAppUserJobHistory.                          *)
(***************************************************************************)
Echo(message) ==
    /\ selas = "returned"
    /\ rpc("echo", FALSE, "app_user_echo",
           [message_app_user |-> Str(message)], "", <<>>)
    /\ UNCHANGED << client, services, credentials, selas, last, pusher,
                    subscribed, published >>

GetAppUserCredits ==
    /\ selas = "returned"
    /\ rpc("getAppUserCredits", FALSE, "app_user_get_credits", EmptyObject,
           "", <<>>)
    /\ UNCHANGED << client, services, credentials, selas, last, pusher,
                    subscribed, published >>

GetAppUserJobHistory(limit, offset) ==
    /\ selas = "returned"
    /\ rpc("getAppUserJobHistory", FALSE, "app_user_get_job_history_detail",
           [p_limit |-> Num(limit), p_offset |-> Num(offset)], "", <<>>)
    /\ UNCHANGED << client, services, credentials, selas, last, pusher,
                    subscribed, published >>

\* echo, getAppUserCredits, getAppUserJobHistory and postJob after their
\* await: `return { data, error }`
RpcReturn(i, answer) ==
    /\ pending[i].kind \in { "echo", "getAppUserCredits",
                             "getAppUserJobHistory", "postJob" }
    /\ Return(i, answer, [data |-> answer.data, error |-> answer.error])
    /\ UNCHANGED << client, services, credentials, selas, ncalls, pusher,
                    subscribed, published >>

(***************************************************************************)
(* postJob and runStableDiffusion.                                         *)
(***************************************************************************)
\* find comparing the names without regard to case
Lower(name) == IF name = "SDXL" THEN "sdxl" ELSE name

RECURSIVE findIgnoreCase(_, _)
findIgnoreCase(list, name) ==
    IF list = <<>> THEN Undefined
    ELSE IF Lower(Head(list).name) = Lower(name) THEN Obj(Head(list))
    ELSE findIgnoreCase(Tail(list), name)

\* Array.prototype.find with `(service) => service.name === name`: the
\* first element of the list with that name, undefined when there is none
RECURSIVE find(_, _)
find(list, name) ==
    IF list = <<>> THEN Undefined
    ELSE IF Head(list).name = name THEN Obj(Head(list))
    ELSE find(Tail(list), name)

\* JSON.stringify of a job configuration: the properties whose value is
\* undefined are left out, the others are written in order
JSONstringify(job_config) ==
    LET kept == SelectSeq(job_config, LAMBDA p : p.defined)
    IN  [t |-> "json", v |-> [n \in 1..Len(kept) |-> << kept[n].k, kept[n].v >>]]

\* postJob sending the service's name for its id
postJobParamsByName(service, job_config) ==
    [p_service_id |-> Str(service.v.name),
     p_job_config |-> JSONstringify(job_config),
     p_worker_filter |-> worker_filter]

\* the parameters postJob calls app_owner_post_job_admin with
postJobParams(service, job_config) ==
    [p_service_id |-> Str(service.v.id),
     p_job_config |-> JSONstringify(job_config),
     p_worker_filter |-> worker_filter]

\* postJob up to its await, for the operation `kind` that runs it
postJob(kind, service_name, job_config) ==
    LET service == find(services, service_name)
    IN  IF ~Truthy(service)
        THEN /\ Throw(kind, service_name, services, "Invalid model name")
             /\ UNCHANGED << pending, ncalls >>
        ELSE /\ rpc(kind, FALSE, "app_owner_post_job_admin",
                    postJobParams(service, job_config), service_name, services)
             /\ UNCHANGED last

PostJob(service_name, job_config) ==
    /\ selas = "returned"
    /\ postJob("postJob", service_name, job_config)
    /\ UNCHANGED << client, services, credentials, selas, pusher, subscribed,
                    published >>

\* runStableDiffusion up to `await this.postJob(...)`; a rejection of
\* postJob's promise rejects runStableDiffusion's
RunStableDiffusion(args, model_name) ==
    /\ selas = "returned"
    /\ postJob("runStableDiffusion", model_name, args)
    /\ UNCHANGED << client, services, credentials, selas, pusher, subscribed,
                    published >>

\* runStableDiffusion returning the error's message for the error
runStableDiffusionMessage(response) ==
    IF Truthy(response.error)
    THEN [data |-> Null, error |-> Str(response.error.v.message)]
    ELSE [data |-> response.data, error |-> Null]

\* what runStableDiffusion returns for postJob's response
runStableDiffusionResult(response) ==
    IF Truthy(response.error)
    THEN [data |-> Null, error |-> response.error]
    ELSE [data |-> response.data, error |-> Null]

\* runStableDiffusion after postJob returned { data, error }
RunStableDiffusionReturn(i, answer) ==
    /\ pending[i].kind = "runStableDiffusion"
    /\ Return(i, answer,
              runStableDiffusionResult([data |-> answer.data,
                                        error |-> answer.error]))
    /\ UNCHANGED << client, services, credentials, selas, ncalls, pusher,
                    subscribed, published >>

(***************************************************************************)
(* subscribeToJob and the relay.                                           *)
(***************************************************************************)
\* the channel named by the job identifier alone
ChannelNameBare(job_id) == job_id

\* the template literal `job-${args.job_id}`
ChannelName(job_id) == "job-" \o job_id

\* the event subscribeToJob binds the callback to
ResultEvent == "result"

\* new Pusher("n", {cluster: "eu"}), client.subscribe(channel) and
\* channel.bind(event, callback)
NewPusher(channel, event, callback) ==
    [app_key |-> "n", cluster |-> "eu",
     channels |-> << [name |-> channel,
                      bindings |-> << [event |-> event,
                                       callback |-> callback] >>] >>]

\* subscribeToJob reusing the client already subscribed to the channel
pusherAfterShared(job_id, callback) ==
    LET same == { n \in 1..Len(pusher) :
                    pusher[n].channels[1].name = ChannelName(job_id) }
    IN  IF same = {}
        THEN Append(pusher, NewPusher(ChannelName(job_id), ResultEvent, callback))
        ELSE LET n == CHOOSE m \in same : TRUE
             IN  [pusher EXCEPT ![n].channels[1].bindings =
                     Append(@, [event |-> ResultEvent, callback |-> callback])]

\* the Pusher clients after subscribeToJob
pusherAfter(job_id, callback) ==
    Append(pusher, NewPusher(ChannelName(job_id), ResultEvent, callback))

SubscribeToJob(job_id, callback) ==
    /\ selas = "returned"
    /\ Len(subscribed) < MaxSubs
    /\ pusher' = pusherAfter(job_id, callback)
    /\ subscribed' = Append(subscribed, [job_id |-> job_id, callback |-> callback])
    /\ UNCHANGED << client, services, credentials, selas, pending, ncalls,
                    last, published >>

RECURSIVE Flatten(_)
Flatten(ss) == IF ss = <<>> THEN <<>> ELSE Head(ss) \o Flatten(Tail(ss))

\* the callbacks a channel object invokes for an event
ChannelCallbacks(ch, event) ==
    LET hit == SelectSeq(ch.bindings, LAMBDA b : b.event = event)
    IN  [n \in 1..Len(hit) |-> hit[n].callback]

\* the callbacks a Pusher client invokes for an event on a channel
ClientCallbacks(c, channel, event) ==
    LET hit == SelectSeq(c.channels, LAMBDA ch : ch.name = channel)
    IN  Flatten([n \in 1..Len(hit) |-> ChannelCallbacks(hit[n], event)])

\* the relay publishes an event on a channel: every connected client
\* invokes the callbacks bound to that event on its subscription to it
RelayPublish(channel, event) ==
    /\ published' =
         [channel |-> channel, event |-> event,
          invoked |-> Flatten([n \in 1..Len(pusher) |->
                                 ClientCallbacks(pusher[n], channel, event)])]
    /\ UNCHANGED << client, services, credentials, selas, pending, ncalls,
                    last, pusher, subscribed >>

(***************************************************************************)
(* The specifications.  The operations that call the backend and the       *)
(* operations on the relay write disjoint variables, so the two halves are *)
(* also given apart, each after createSelasClient returned the client.     *)
(***************************************************************************)
CreateNext ==
    \/ CreateSelasClient
    \/ \E i \in 1..Len(pending) :
         \E a \in BackendAnswers(pending[i].fn) : CreateSelasClientReturn(i, a)

ClientNext ==
    \/ GetServiceList
    \/ \E i \in 1..Len(pending) :
         \E a \in BackendAnswers(pending[i].fn) : GetServiceListReturn(i, a)
    \/ \E m \in { "hello" } : Echo(m)
    \/ GetAppUserCredits
    \/ \E limit \in { 10 }, offset \in { 0 } : GetAppUserJobHistory(limit, offset)
    \/ \E i \in 1..Len(pending) :
         \E a \in BackendAnswers(pending[i].fn) : RpcReturn(i, a)
    \/ \E n \in ServiceNames, c \in JobConfigs : PostJob(n, c)
    \/ \E n \in ServiceNames, c \in JobConfigs : RunStableDiffusion(c, n)
    \/ \E i \in 1..Len(pending) :
         \E a \in BackendAnswers(pending[i].fn) : RunStableDiffusionReturn(i, a)

RelayNext ==
    \/ \E j \in SubscribeJobIds, cb \in Callbacks : SubscribeToJob(j, cb)
    \/ \E ch \in RelayChannels, e \in RelayEvents : RelayPublish(ch, e)

Next == CreateNext \/ ClientNext \/ RelayNext

Spec == Init /\ [][Next]_vars

\* the client and the backend
SpecClient == Init /\ [][CreateNext \/ ClientNext]_vars

\* the client and the relay
SpecRelay == Init /\ [][CreateNext \/ RelayNext]_vars

(***************************************************************************)
(* Notions the properties below are stated with.                           *)
(***************************************************************************)
\* the positions of the entries of a list with a name
Named(list, name) == { k \in 1..Len(list) : list[k].name = name }

\* no entry of the list has the name
Absent(list, name) == Named(list, name) = {}

\* the first entry of the list with the name
FirstNamed(list, name) ==
    list[CHOOSE k \in Named(list, name) : \A j \in Named(list, name) : k <= j]

\* the operations that submit a job
SubmissionKinds == { "postJob", "runStableDiffusion" }

\* a step that submits a job under service name n with configuration c
Submits(n, c) == PostJob(n, c) \/ RunStableDiffusion(c, n)

\* a step in which the i-th pending operation, a catalog fetch, resumes
\* with the backend's answer a
FetchReturns(i, a) == GetServiceListReturn(i, a) \/ CreateSelasClientReturn(i, a)

\* a step in which the i-th pending operation, a job submission, resumes
\* with the backend's answer a
SubmissionReturns(i, a) ==
    \/ pending[i].kind = "postJob" /\ RpcReturn(i, a)
    \/ RunStableDiffusionReturn(i, a)

\* the pending operations, and the one that returned last if any
Issued ==
    { pending[i] : i \in 1..Len(pending) }
      \cup (IF last.outcome = "returned"
            THEN { [kind |-> last.kind, ctor |-> last.ctor, fn |-> last.fn,
                    params |-> last.params,
                    service_name |-> last.service_name, read |-> last.read] }
            ELSE {})

(***************************************************************************)
(* C1.  A job submission (postJob, or runStableDiffusion through it) under *)
(* a service name that no catalog entry has fails locally and calls the    *)
(* backend zero times: the call counter and the calls in flight are after  *)
(* the submission what they were before it.                                *)
(***************************************************************************)
C1_AbsentNameNoBackendCall ==
    [][ \A n \in ServiceNames, c \in JobConfigs :
          (Absent(services, n) /\ Submits(n, c))
             => /\ ncalls' = ncalls
                /\ pending' = pending
                /\ last'.outcome = "thrown" ]_vars

\* a submission under "SDXL" failed against a catalog that has "sdxl"
C1_Witness ==
    /\ last.kind = "postJob"
    /\ last.outcome = "thrown"
    /\ last.service_name = "SDXL"
    /\ last.read = << svc1, svc2 >>
    /\ ncalls = 1

(***************************************************************************)
(* C2, as claimed.  A job submission under a service name absent from the  *)
(* catalog completes by returning the pair {data: null, error: "Invalid    *)
(* model name"}.                                                           *)
(***************************************************************************)
C2_AbsentNameReturnsErrorPair ==
    (last.kind \in SubmissionKinds /\ Absent(last.read, last.service_name))
       => /\ last.outcome = "returned"
          /\ last.result = [data |-> Null, error |-> Str("Invalid model name")]

(***************************************************************************)
(* C2, amended.  A job submission under a service name absent from the     *)
(* catalog completes by throwing an Error with the message "Invalid model  *)
(* name" and returns no pair; the operations that return have called the   *)
(* backend and return the pair it answered.                                *)
(***************************************************************************)
C2_AbsentNameThrows ==
    /\ (last.kind \in SubmissionKinds /\ Absent(last.read, last.service_name))
          => /\ last.outcome = "thrown"
             /\ last.message = "Invalid model name"
    /\ last.outcome = "returned"
          => /\ last.fn # ""
             /\ last.result = last.answer

\* runStableDiffusion failed against the empty catalog
C2_Witness ==
    /\ last.kind = "runStableDiffusion"
    /\ last.outcome = "thrown"
    /\ last.service_name = "sdxl"
    /\ last.read = <<>>
    /\ services = <<>>

(***************************************************************************)
(* C3.  A job submission under a service name that some catalog entry has  *)
(* issues exactly one backend call, to app_owner_post_job_admin, with      *)
(* p_service_id the id of the (first) catalog entry with that name and     *)
(* p_worker_filter the client's worker filter; when the backend answers    *)
(* {data: J, error: null} the submission returns {data: J, error: null}.   *)
(***************************************************************************)
C3_CallOfSubmission(p) ==
    /\ ~Absent(p.read, p.service_name)
    /\ p.fn = "app_owner_post_job_admin"
    /\ p.params.p_service_id = Str(FirstNamed(p.read, p.service_name).id)
    /\ p.params.p_worker_filter = worker_filter

C3_PresentNameOneCall ==
    /\ [](/\ \A p \in Issued : p.kind \in SubmissionKinds => C3_CallOfSubmission(p)
          /\ (/\ last.kind \in SubmissionKinds
              /\ last.outcome = "returned"
              /\ last.answer.data.t = "string"
              /\ last.answer.error = Null)
                => last.result = [data |-> last.answer.data, error |-> Null])
    /\ [][ /\ \A n \in ServiceNames, c \in JobConfigs :
                (~Absent(services, n) /\ Submits(n, c))
                   => /\ ncalls' = ncalls + 1
                      /\ Len(pending') = Len(pending) + 1
                      /\ SubSeq(pending', 1, Len(pending)) = pending
                      /\ pending'[Len(pending')].service_name = n
                      /\ pending'[Len(pending')].read = services
           /\ \A i \in 1..Len(pending) :
                \A a \in BackendAnswers(pending[i].fn) :
                   SubmissionReturns(i, a)
                      => /\ ncalls' = ncalls
                         /\ pending' = Remove(pending, i) ]_vars

\* runStableDiffusion returned the job identifier for "sdxl", which two
\* entries of the catalog it read have
C3_Witness ==
    /\ last.kind = "runStableDiffusion"
    /\ last.outcome = "returned"
    /\ last.service_name = "sdxl"
    /\ last.read = << svc3, svc1 >>
    /\ last.params.p_service_id = Str("svc-3")
    /\ last.result = [data |-> Str("job-42"), error |-> Null]

(***************************************************************************)
(* C4.  When the backend answers the job-creation call with an error, the  *)
(* submission returns that error object unchanged with data null, and      *)
(* calls the backend no second time.                                       *)
(***************************************************************************)
C4_BackendErrorForwarded ==
    /\ []((/\ last.kind \in SubmissionKinds
           /\ last.outcome = "returned"
           /\ Truthy(last.answer.error))
             => /\ last.result.error = last.answer.error
                /\ last.result.data = Null)
    /\ [][ \A i \in 1..Len(pending) :
             \A a \in BackendAnswers(pending[i].fn) :
                (Truthy(a.error) /\ SubmissionReturns(i, a))
                   => /\ ncalls' = ncalls
                      /\ pending' = Remove(pending, i)
                      /\ last'.result.error = a.error ]_vars

\* runStableDiffusion returned the backend's "quota exceeded"
C4_Witness ==
    /\ last.kind = "runStableDiffusion"
    /\ last.outcome = "returned"
    /\ last.answer.error = Obj([message |-> "quota exceeded"])
    /\ last.result = [data |-> Null, error |-> Obj([message |-> "quota exceeded"])]

(***************************************************************************)
(* C5.  A catalog fetch that the backend answers with a list leaves the    *)
(* service list equal to that list, in its order and with its duplicates,  *)
(* whatever the list was before; and only a catalog fetch changes the      *)
(* service list.                                                           *)
(***************************************************************************)
C5_FetchReplacesCatalog ==
    [][ /\ \A i \in 1..Len(pending) :
             \A a \in BackendAnswers(pending[i].fn) :
                (FetchReturns(i, a) /\ a.data.t = "array")
                   => services' = a.data.v
        /\ services' # services
             => \E i \in 1..Len(pending) :
                  \E a \in BackendAnswers(pending[i].fn) :
                     FetchReturns(i, a) /\ a.data.t = "array" ]_vars

\* a refresh was answered with a list that repeats an entry
C5_Witness ==
    /\ last.kind = "getServiceList"
    /\ ~last.ctor
    /\ last.answer.data = List(<< svc2, svc2 >>)
    /\ services = << svc2, svc2 >>

(***************************************************************************)
(* C6.  Each subscribeToJob call with job identifier J makes exactly one   *)
(* subscription, to the channel job-J, with the callback bound to the      *)
(* event "result" only; a callback is invoked only by a "result" event     *)
(* published on the channel job-J of a subscription made with it.          *)
(***************************************************************************)
C6_SubscriptionChannelAndEvent ==
    /\ Len(pusher) = Len(subscribed)
    /\ \A n \in 1..Len(pusher) :
          pusher[n].channels =
             << [name |-> "job-" \o subscribed[n].job_id,
                 bindings |-> << [event |-> "result",
                                  callback |-> subscribed[n].callback] >>] >>
    /\ \A k \in 1..Len(published.invoked) :
          /\ published.event = "result"
          /\ \E n \in 1..Len(subscribed) :
                /\ subscribed[n].callback = published.invoked[k]
                /\ published.channel = "job-" \o subscribed[n].job_id

\* of the subscriptions to job 42 with cb1 and to job 7 with cb2, a
\* "result" on job-42 invoked cb1 alone
C6_Witness ==
    /\ subscribed = << [job_id |-> "42", callback |-> "cb1"],
                       [job_id |-> "7", callback |-> "cb2"] >>
    /\ published = [channel |-> "job-42", event |-> "result",
                    invoked |-> << "cb1" >>]

(***************************************************************************)
(* C7.  Every backend call carries p_app_id, p_key, p_app_user_id and      *)
(* p_app_user_token equal to the credentials createSelasClient was given;  *)
(* parameters of a call with these keys do not override them; and no       *)
(* operation changes the client's credentials or its worker filter.        *)
(***************************************************************************)
C7_CarriesCredentials(params) ==
    /\ { "p_app_id", "p_key", "p_app_user_id", "p_app_user_token" }
          \subseteq DOMAIN params
    /\ params.p_app_id = Str(credentials.app_id)
    /\ params.p_key = Str(credentials.key)
    /\ params.p_app_user_id = Str(credentials.app_user_id)
    /\ params.p_app_user_token = Str(credentials.app_user_token)

\* parameters a call might pass to rpc
C7_CallParams ==
    { EmptyObject,
      [p_limit |-> Num(1), p_offset |-> Num(0)],
      [p_key |-> Str("key-X"), p_app_id |-> Str("app-X")],
      [p_app_user_id |-> Str("user-X"), p_app_user_token |-> Str("token-X"),
       p_service_id |-> Str("svc-1")] }

C7_CredentialsOnEveryCall ==
    /\ [](/\ \A p \in Issued : C7_CarriesCredentials(p.params)
          /\ \A q \in C7_CallParams :
                /\ C7_CarriesCredentials(paramsWithToken(q))
                /\ \A k \in DOMAIN q : k \in DOMAIN paramsWithToken(q))
    /\ [][client' = client]_vars

\* a job-history call and a job submission are in flight after the
\* catalog fetch of createSelasClient
C7_Witness ==
    /\ credentials.app_id = "app-B"
    /\ last.kind = "getServiceList"
    /\ last.params.p_app_user_token = Str("token-B")
    /\ Len(pending) = 2
    /\ pending[1].kind = "getAppUserJobHistory"
    /\ pending[2].kind = "postJob"

(***************************************************************************)
(* C8.  A job submission in flight together with a catalog fetch resolved  *)
(* its service name against one complete list, the empty list of the       *)
(* constructor or a list the backend answered a fetch with, never a        *)
(* mixture; the service id it sent is the one of that list, also when a    *)
(* fetch has replaced the list since.                                      *)
(***************************************************************************)
C8_SubmissionReadsWholeList ==
    \A p \in Issued :
       p.kind \in SubmissionKinds
          => /\ p.read \in CatalogAnswers \cup { <<>> }
             /\ ~Absent(p.read, p.service_name)
             /\ p.params.p_service_id = Str(FirstNamed(p.read, p.service_name).id)

\* a fetch replaced the list a submission still in flight had read, so
\* that the name the job was submitted under now belongs to another id
C8_Witness ==
    /\ last.kind = "getServiceList"
    /\ ~last.ctor
    /\ services = << svc3, svc1 >>
    /\ Len(pending) = 1
    /\ pending[1].kind = "postJob"
    /\ pending[1].service_name = "sdxl"
    /\ pending[1].read = << svc1, svc2 >>
    /\ pending[1].params.p_service_id = Str("svc-1")

(***************************************************************************)
(* C9.  Each subscribeToJob call opens a relay client of its own and none  *)
(* is ever closed or unsubscribed: after n calls there are n clients and   *)
(* n subscriptions, also for calls with the same job identifier, and the   *)
(* clients there are stay as they are.                                     *)
(***************************************************************************)
RECURSIVE C9_Subscriptions(_)
C9_Subscriptions(clients) ==
    IF clients = <<>> THEN 0
    ELSE Len(Head(clients).channels) + C9_Subscriptions(Tail(clients))

C9_OneClientPerSubscribe ==
    /\ [](/\ Len(pusher) = Len(subscribed)
          /\ C9_Subscriptions(pusher) = Len(subscribed))
    /\ [][ /\ Len(pusher') >= Len(pusher)
           /\ SubSeq(pusher', 1, Len(pusher)) = pusher ]_vars

\* two subscribeToJob calls for job 42
C9_Witness ==
    /\ Len(subscribed) = 2
    /\ subscribed[1].job_id = "42"
    /\ subscribed[2].job_id = "42"
    /\ Len(pusher) = 2

(***************************************************************************)
(* C10, as claimed.  A catalog fetch answered without data leaves the      *)
(* service list as it was, and the list is empty when createSelasClient    *)
(* returns only when the first fetch had no data.                          *)
(***************************************************************************)
C10_FetchWithoutDataKeeps ==
    \A i \in 1..Len(pending) :
       \A a \in BackendAnswers(pending[i].fn) :
          (FetchReturns(i, a) /\ ~Truthy(a.data)) => services' = services

C10_EmptyOnlyWithoutData ==
    /\ [][C10_FetchWithoutDataKeeps]_vars
    /\ []((last.ctor /\ services = <<>>) => last.answer.data = Null)

(***************************************************************************)
(* C10, amended.  A catalog fetch answered without data leaves the service *)
(* list as it was, and the list is empty when createSelasClient returns    *)
(* only when the first fetch had no data or was answered with the empty    *)
(* list.                                                                   *)
(***************************************************************************)
C10_EmptyWithoutDataOrEmptyAnswer ==
    /\ [][C10_FetchWithoutDataKeeps]_vars
    /\ []((last.ctor /\ services = <<>>)
             => \/ last.answer.data = Null
                \/ last.answer.data = List(<<>>))

\* a refresh the backend answered with an error kept the fetched list
C10_Witness ==
    /\ last.kind = "getServiceList"
    /\ ~last.ctor
    /\ last.answer.data = Null
    /\ Truthy(last.answer.error)
    /\ services = << svc1, svc2 >>

====
